---- MODULE Spec2Model ----
(***************************************************************************)
(* pyXMLSecurity (xmlsec/__init__.py): enveloped RSA-SHA1 XML signatures.   *)
(*                                                                         *)
(* Strings and byte strings are sequences of tokens (a token is one         *)
(* character, one name or one opaque octet).  An lxml element is a record   *)
(* [tag, attrs, text, kids, tail]; text and tail are token sequences or     *)
(* None.  A path is the sequence of child indexes leading from the root to  *)
(* an element.  Namespace declarations are not rendered by the model of     *)
(* the serializer, so the three canonicalization variants differ only in    *)
(* the treatment of comments.                                               *)
(***************************************************************************)
EXTENDS Integers, Sequences, FiniteSets, TLC

VARIABLES
    doc,              \* the caller's tree t (its root element)
    _id_attributes,   \* module-level list of ID attribute names
    last,             \* the last call: operation, argument, outcome, what it digested and padded
    signed,           \* the tree as the last sign call left it, and the certificate it used
    signs,            \* number of sign calls so far
    edits             \* number of edits the caller made to the tree

vars == <<doc, _id_attributes, last, signed, signs, edits>>

-----------------------------------------------------------------------------
(* Bounds of the model *)

MaxSigs == 1      \* add_enveloped_signature is called on trees with fewer ds:Signature elements
MaxSigns == 1     \* sign calls
MaxEdits == 2     \* edits of the tree by the caller

-----------------------------------------------------------------------------
(* Python values *)

None == <<"#None">>

\* "".join(s) and the concatenation of a list of lists, by halves
RECURSIVE Join(_)
Join(s) ==
    IF Len(s) = 0 THEN ""
    ELSE IF Len(s) = 1 THEN s[1]
    ELSE Join(SubSeq(s, 1, Len(s) \div 2)) \o Join(SubSeq(s, Len(s) \div 2 + 1, Len(s)))

RECURSIVE Flat(_)
Flat(ss) ==
    IF Len(ss) = 0 THEN <<>>
    ELSE IF Len(ss) = 1 THEN ss[1]
    ELSE Flat(SubSeq(ss, 1, Len(ss) \div 2)) \o Flat(SubSeq(ss, Len(ss) \div 2 + 1, Len(ss)))

Repeat(x, n) == [i \in 1..n |-> x]

\* s + t on strings: a TypeError when one side is None
IsNone(s) == s = None

\* the outcome of a call: err is "" or the name of the exception raised
Ok(v) == [err |-> "", v |-> v]
Raise(kind) == [err |-> kind, v |-> None]

-----------------------------------------------------------------------------
(* Module constants *)

PREFIX == <<"30", "21", "30", "09", "06", "05", "2B", "0E", "03", "02", "1A", "05", "00", "04", "14">>

XMLDSIG == "http://www.w3.org/2000/09/xmldsig"
EXC_C14N == "http://www.w3.org/2001/10/xml-exc-c14n"

TRANSFORM_ENVELOPED_SIGNATURE == <<XMLDSIG, "#", "enveloped-signature">>
TRANSFORM_C14N_EXCLUSIVE_WITH_COMMENTS == <<EXC_C14N, "#", "WithComments">>
TRANSFORM_C14N_EXCLUSIVE == <<EXC_C14N>>
TRANSFORM_C14N_INCLUSIVE == <<"http://www.w3.org/TR/2001/REC-xml-c14n-20010315">>

ALGORITHM_DIGEST_SHA1 == <<XMLDSIG, "#", "sha1">>
ALGORITHM_SIGNATURE_RSA_SHA1 == <<XMLDSIG, "#", "rsa-sha1">>

-----------------------------------------------------------------------------
(* lxml trees *)

Element(tag, attrs, text, kids) ==
    [tag |-> tag, attrs |-> attrs, text |-> text, kids |-> kids, tail |-> None]

\* DS = ElementMaker(namespace=NS['ds'], nsmap=NS)
DS(name, attrs, text, kids) == Element("ds:" \o name, attrs, text, kids)

NoAttrs == <<>>

\* elt.get(name, None)
Get(elt, name) == IF name \in DOMAIN elt.attrs THEN elt.attrs[name] ELSE None

RECURSIVE NodeAt(_, _)
NodeAt(n, p) == IF p = <<>> THEN n ELSE NodeAt(n.kids[Head(p)], Tail(p))

RECURSIVE PutAt(_, _, _)
PutAt(n, p, m) ==
    IF p = <<>> THEN m
    ELSE [n EXCEPT !.kids[Head(p)] = PutAt(@, Tail(p), m)]

Parent(p) == SubSeq(p, 1, Len(p) - 1)
Last(p) == p[Len(p)]

\* the paths of the proper descendants of n, in document order
RECURSIVE Paths(_)
RECURSIVE KidPaths(_, _)
Paths(n) == KidPaths(n, 1)
KidPaths(n, i) ==
    IF i > Len(n.kids) THEN <<>>
    ELSE LET below == Paths(n.kids[i])
         IN  <<<<i>>>> \o [j \in 1..Len(below) |-> <<i>> \o below[j]] \o KidPaths(n, i + 1)

\* base.findall(".//{ns}tag"): absolute paths, in document order
FindAll(t, base, tag) ==
    LET n == NodeAt(t, base)
        hits == SelectSeq(Paths(n), LAMBDA p : NodeAt(n, p).tag = tag)
    IN  [j \in 1..Len(hits) |-> base \o hits[j]]

\* base.find(".//{ns}tag"): the first match, or NoPath (None)
NoPath == <<0>>
Find(t, base, tag) ==
    LET hits == FindAll(t, base, tag) IN IF hits = <<>> THEN NoPath ELSE hits[1]

\* parent.remove(child): lxml removes the element together with its tail
RemoveAt(t, p) ==
    LET par == NodeAt(t, Parent(p))
        i == Last(p)
    IN  PutAt(t, Parent(p),
              [par EXCEPT !.kids = SubSeq(@, 1, i - 1) \o SubSeq(@, i + 1, Len(@))])

\* parent.insert(i, child), i counted from 0
InsertAt(t, parentp, i, child) ==
    LET par == NodeAt(t, parentp)
    IN  PutAt(t, parentp,
              [par EXCEPT !.kids = SubSeq(@, 1, i) \o <<child>> \o SubSeq(@, i + 1, Len(@))])

-----------------------------------------------------------------------------
(* The serializer: etree.tostring(t, method="c14n", ...) *)

\* character data: & < > are written as entity references
EscText(s) ==
    Flat([i \in 1..Len(s) |->
            CASE s[i] = "&" -> <<"&", "amp", ";">>
              [] s[i] = "<" -> <<"&", "lt", ";">>
              [] s[i] = ">" -> <<"&", "gt", ";">>
              [] s[i] = "\r" -> <<"&", "#", "xD", ";">>
              [] OTHER -> <<s[i]>>])

\* attribute values: & < " and the line breaks are written as references
EscAttr(s) ==
    Flat([i \in 1..Len(s) |->
            CASE s[i] = "&" -> <<"&", "amp", ";">>
              [] s[i] = "<" -> <<"&", "lt", ";">>
              [] s[i] = "\"" -> <<"&", "quot", ";">>
              [] s[i] = "\n" -> <<"&", "#", "xA", ";">>
              [] s[i] = "\r" -> <<"&", "#", "xD", ";">>
              [] OTHER -> <<s[i]>>])

TextOf(s) == IF IsNone(s) THEN <<>> ELSE s

\* canonical XML orders the attributes by name (code point order)
AttrOrder == <<"Algorithm", "ID", "Id", "URI", "id">>

SerAttrs(n) ==
    Flat([i \in 1..Len(AttrOrder) |->
            IF AttrOrder[i] \in DOMAIN n.attrs
            THEN <<" ", AttrOrder[i], "=", "\"">> \o EscAttr(n.attrs[AttrOrder[i]]) \o <<"\"">>
            ELSE <<>>])

RECURSIVE Ser(_, _)
Ser(n, with_comments) ==
    IF n.tag = "#comment"
    THEN IF with_comments THEN <<"<!--">> \o TextOf(n.text) \o <<"-->">> ELSE <<>>
    ELSE <<"<", n.tag>> \o SerAttrs(n) \o <<">">>
         \o EscText(TextOf(n.text))
         \o Flat([i \in 1..Len(n.kids) |->
                    Ser(n.kids[i], with_comments) \o EscText(TextOf(n.kids[i].tail))])
         \o <<"<", "/", n.tag, ">">>

-----------------------------------------------------------------------------
(* _unescape: re.sub("&#?\w+;", fixup, text) *)

\* \w: the tokens made of word characters
NonWord == {"&", "#", ";", "<", ">", "/", "=", "\"", " ", "\n", "\r", "<!--", "-->", ":"}
IsWord(tok) == tok \notin NonWord

\* htmlentitydefs.name2codepoint, the names the serializer writes
name2codepoint == [amp |-> "&", lt |-> "<", gt |-> ">", quot |-> "\""]

\* int(text[3:-1], 16) and int(text[2:-1]) followed by unichr, for the
\* references the serializer writes; a ValueError otherwise
charref == [xD |-> "\r", xA |-> "\n"]

\* the number of word tokens s starts with
RECURSIVE WordRun(_)
WordRun(s) == IF s # <<>> /\ IsWord(Head(s)) THEN 1 + WordRun(Tail(s)) ELSE 0

\* fixup(m): m is "&" ["#"] run ";"; what it cannot resolve is left as it is
Fixup(hash, run) ==
    LET w == Join(run)
    IN  IF hash
        THEN IF w \in DOMAIN charref THEN <<charref[w]>> ELSE <<"&", "#">> \o run \o <<";">>
        ELSE IF w \in DOMAIN name2codepoint THEN <<name2codepoint[w]>> ELSE <<"&">> \o run \o <<";">>

\* A match of the pattern at i: "&", an optional "#", a run of word tokens
\* from MatchFrom to MatchEnd - 1, and ";" at MatchEnd.  Matches cannot
\* overlap ("&" is in none but at its start), so re.sub replaces each.
MatchFrom(text, i) == IF i + 1 <= Len(text) /\ text[i + 1] = "#" THEN i + 2 ELSE i + 1
MatchEnd(text, i) == MatchFrom(text, i) + WordRun(SubSeq(text, MatchFrom(text, i), Len(text)))

Matches(text, i) ==
    /\ text[i] = "&"
    /\ MatchEnd(text, i) > MatchFrom(text, i)
    /\ MatchEnd(text, i) <= Len(text)
    /\ text[MatchEnd(text, i)] = ";"

_unescape(text) ==
    LET starts == {i \in 1..Len(text) : Matches(text, i)}
        inside(i) == \E j \in starts : j < i /\ i <= MatchEnd(text, j)
    IN  Flat([i \in 1..Len(text) |->
                IF i \in starts
                THEN Fixup(MatchFrom(text, i) = i + 2,
                           SubSeq(text, MatchFrom(text, i), MatchEnd(text, i) - 1))
                ELSE IF inside(i) THEN <<>>
                ELSE <<text[i]>>])

\* str.strip()
Whitespace == {" ", "\n", "\r"}
RECURSIVE LStrip(_)
LStrip(s) == IF s # <<>> /\ Head(s) \in Whitespace THEN LStrip(Tail(s)) ELSE s
RECURSIVE RStrip(_)
RStrip(s) == IF s # <<>> /\ s[Len(s)] \in Whitespace THEN RStrip(SubSeq(s, 1, Len(s) - 1)) ELSE s
Strip(s) == RStrip(LStrip(s))


\* A Python object handed from transform to transform: an element or a str
Tree(n) == [kind |-> "tree", v |-> n]
Bytes(s) == [kind |-> "bytes", v |-> s]

\* u[0] and u[-1]: the first character of the first token and the last
\* character of the last token that hold any
FirstChar(u) == SubSeq(u[1], 1, 1)
LastChar(u) == SubSeq(u[Len(u)], Len(u[Len(u)]), Len(u[Len(u)]))

\* the two assert statements of _c14n and its return; u[0] of an empty string
\* is an IndexError
Framed(u) ==
    LET chars == SelectSeq(u, LAMBDA tok : Len(tok) > 0)
    IN  IF chars = <<>> THEN Raise("IndexError")
        ELSE IF FirstChar(chars) # "<" \/ LastChar(chars) # ">" THEN Raise("AssertionError")
        ELSE Ok(Bytes(u))

\* exclusive selects the namespace declarations, which the model does not render
_c14n(t, exclusive, with_comments) ==
    IF t.kind # "tree" THEN Raise("TypeError")        \* etree.tostring of a str
    ELSE Framed(Strip(_unescape(Ser(t.v, with_comments))))

-----------------------------------------------------------------------------
(* Codecs, hashing and the RSA key oracle *)

\* hashlib: an ideal hash.  The digest has the algorithm's length; its first
\* octet stands for the preimage, the others are fixed.
HashLen == [sha1 |-> 20, sha256 |-> 32, md5 |-> 16]
Hash(hash_alg, str) == <<hash_alg \o "(" \o Join(str) \o ")">> \o Repeat("00", HashLen[hash_alg] - 1)

\* base64.  The characters that carry the octet x are the token "~" \o x; an
\* encoded form ends with the pad "==" or "=" when the number of octets is no
\* multiple of 3.  Every other token is read character by character.
Pad(n) == IF n % 3 = 0 THEN <<>> ELSE IF n % 3 = 1 THEN <<"==">> ELSE <<"=">>

\* s.encode('base64').replace('\n', '')
b64e(s) == [i \in 1..Len(s) |-> "~" \o s[i]] \o Pad(Len(s))

Base64Letters == "ABCDEFGHIJKLMNOPQRSTUVWXYZabcdefghijklmnopqrstuvwxyz0123456789+/"
Base64Alphabet == {SubSeq(Base64Letters, i, i) : i \in 1..Len(Base64Letters)}

IsEncoded(tok) == Len(tok) >= 1 /\ SubSeq(tok, 1, 1) = "~"

\* a data character: the position in its group of four it was written at, and
\* the octet it completes; a character that was not written by b64e; a pad
Data(at, v) == [c |-> "d", at |-> at, v |-> v]
Stray == [c |-> "g", at |-> 0, v |-> <<>>]
PadChar == [c |-> "=", at |-> 0, v |-> <<>>]

\* the characters of one token that binascii looks at; k is the number of
\* octet tokens of the run the token ends
TokenChars(tok, k) ==
    IF IsEncoded(tok)
    THEN LET x == <<SubSeq(tok, 2, Len(tok))>>
         IN  IF k % 3 = 1 THEN <<Data(0, <<>>), Data(1, x)>>
             ELSE IF k % 3 = 2 THEN <<Data(2, x)>>
             ELSE <<Data(3, x)>>
    ELSE Flat([i \in 1..Len(tok) |->
                 IF SubSeq(tok, i, i) \in Base64Alphabet THEN <<Stray>>
                 ELSE IF SubSeq(tok, i, i) = "=" THEN <<PadChar>>
                 ELSE <<>>])

\* white space and the characters outside the alphabet are skipped; a run of
\* octet tokens goes on across white space and ends at any other token
Base64Chars(s) ==
    LET breaks == {j \in 1..Len(s) : ~IsEncoded(s[j]) /\ s[j] \notin Whitespace}
        enc == {j \in 1..Len(s) : IsEncoded(s[j])}
        Run(i) == Cardinality({j \in enc : j <= i /\ \A b \in breaks : b < j \/ b > i})
    IN  Flat([i \in 1..Len(s) |-> TokenChars(s[i], Run(i))])

\* binascii.a2b_base64.  quad(j) is quad_pos when the loop comes to the
\* character j, and leftbits is 0 exactly when quad_pos is 0.  A pad is skipped
\* when it comes too early in its group, wherever that is, and ends the input
\* otherwise.
\* "Incorrect padding" when bits are left over; what was not written by b64e
\* decodes to junk.
a2b_base64(chars) ==
    LET pads == {j \in 1..Len(chars) : chars[j].c = "="}
        quad(j) == (j - 1 - Cardinality({p \in pads : p < j})) % 4
        skipped(j) == quad(j) < 2 \/ (quad(j) = 2 /\ (j = Len(chars) \/ chars[j + 1].c # "="))
        ends == {j \in pads : ~skipped(j)}
        stop == IF ends = {} THEN Len(chars) + 1 ELSE CHOOSE j \in ends : \A k \in ends : j <= k
        data == SelectSeq(SubSeq(chars, 1, stop - 1), LAMBDA ch : ch.c # "=")
        clean == \A i \in 1..Len(data) : data[i].c = "d" /\ data[i].at = (i - 1) % 4
    IN  IF ends = {} /\ Len(data) % 4 # 0 THEN Raise("binascii.Error")
        ELSE Ok(IF clean THEN Flat([i \in 1..Len(data) |-> data[i].v]) ELSE <<"junk">>)

\* s.decode('base64'): raises binascii.Error
b64d(s) == a2b_base64(Base64Chars(s))

\* base64.b64decode(s): raises TypeError, also for None
b64decode(s) ==
    IF IsNone(s) THEN Raise("TypeError")
    ELSE IF b64d(s).err # "" THEN Raise("TypeError")
    ELSE b64d(s)

\* Certificates: the DER body, the PEM file around it, and the key inside
Certs == {1, 2}
DER(c) == <<"der" \o ToString(c)>>
BEGIN_CERTIFICATE == "-----BEGIN CERTIFICATE-----"
END_CERTIFICATE == "-----END CERTIFICATE-----"
PEM(body) == <<BEGIN_CERTIFICATE, "\n">> \o body \o <<"\n", END_CERTIFICATE>>
CertFile(c) == PEM(b64e(DER(c))) \o <<"\n">>

\* rsa_x509_pem.parse followed by get_key: the certificate a PEM text holds, 0 when it holds none
ParseCert(data) ==
    LET d == SelectSeq(data, LAMBDA c : c \notin Whitespace)
        hit == {c \in Certs : d = <<BEGIN_CERTIFICATE>> \o b64e(DER(c)) \o <<END_CERTIFICATE>>}
    IN  IF hit = {} THEN 0 ELSE CHOOSE c \in hit : TRUE

\* key.size(): the bit length of the modulus of each certificate's key
ModulusBits == <<304, 309>>
KeySize(c) == ModulusBits[c]

\* rsa_x509_pem.f_private(key) and f_public(key): inverse permutations of the blocks
f_private(c, block) == <<"rsa" \o ToString(c)>> \o block
f_public(c, block) ==
    IF block # <<>> /\ Head(block) = "rsa" \o ToString(c) THEN Tail(block) ELSE <<"junk">>

\* hashlib.sha1(cert_der).hexdigest(), and the colon-separated form callers pass
HexDigest(der) == Hash("sha1", der)
Fingerprint(c) ==
    LET h == HexDigest(DER(c))
    IN  Flat([i \in 1..Len(h) |-> IF i = 1 THEN <<h[i]>> ELSE <<":", h[i]>>])

\* '\xFF' * pad_size is empty when pad_size is negative
_signed_value(data, key_size) ==
    LET asn_digest == PREFIX \o data
        padded_size == (key_size \div 8) - 1
        pad_size == padded_size - Len(asn_digest) - 2
        pad == <<"01">> \o Repeat("FF", pad_size) \o <<"00">>
        padded_digest == pad \o asn_digest
    IN  padded_digest

\* getattr(hashlib, hash_alg)() raises AttributeError for an unknown name,
\* h.update(str) raises TypeError for an element
_digest(str, hash_alg) ==
    IF hash_alg \notin DOMAIN HashLen THEN Raise("AttributeError")
    ELSE IF str.kind # "bytes" THEN Raise("TypeError")
    ELSE Ok(b64e(Hash(hash_alg, str.v)))

-----------------------------------------------------------------------------
(* Dereferencing and transforms *)

\* _get_by_id: t.xpath("//*[@id_a='id_v']") for each configured name in turn
RECURSIVE GetByIdFrom(_, _, _)
GetByIdFrom(t, id_v, ids) ==
    IF ids = <<>> THEN NoPath
    ELSE LET elts == SelectSeq(<<<<>>>> \o Paths(t),
                               LAMBDA p : Get(NodeAt(t, p), Head(ids)) = id_v)
         IN  IF Len(elts) > 0 THEN elts[1] ELSE GetByIdFrom(t, id_v, Tail(ids))

_get_by_id(t, id_v) == GetByIdFrom(t, id_v, _id_attributes)

\* uri.rstrip('#')
RECURSIVE RStripHash(_)
RStripHash(s) == IF s # <<>> /\ s[Len(s)] = "#" THEN RStripHash(SubSeq(s, 1, Len(s) - 1)) ELSE s

_alg(elt) ==
    LET uri == Get(elt, "Algorithm")
    IN  IF uri = None THEN None ELSE RStripHash(uri)

\* s.split(sep)
RECURSIVE Split(_, _)
Split(s, sep) ==
    IF \A i \in 1..Len(s) : s[i] # sep THEN <<s>>
    ELSE LET k == CHOOSE i \in 1..Len(s) : s[i] = sep /\ \A j \in 1..(i - 1) : s[j] # sep
         IN  <<SubSeq(s, 1, k - 1)>> \o Split(SubSeq(s, k + 1, Len(s)), sep)

\* the tree without its ds:Signature elements
RECURSIVE Outside(_)
Outside(n) ==
    LET keep == SelectSeq(n.kids, LAMBDA k : k.tag # "ds:Signature")
    IN  [n EXCEPT !.kids = [i \in 1..Len(keep) |-> Outside(keep[i])]]

\* a transform that removes every ds:Signature descendant
RemoveEverySignature(t) ==
    IF t.kind # "tree" THEN Raise("AttributeError")
    ELSE IF Find(t.v, <<>>, "ds:Signature") = NoPath THEN Raise("AttributeError")
    ELSE Ok(Tree(Outside(t.v)))

\* t is a deep copy when _process_references calls, and the caller's SignedInfo
\* when the CanonicalizationMethod names this transform
_enveloped_signature(t) ==
    IF t.kind # "tree" THEN Raise("AttributeError")      \* str.find gives an int
    ELSE
    LET sig == Find(t.v, <<>>, "ds:Signature")
    IN  IF sig = NoPath THEN Raise("AttributeError")     \* None.getprevious()
        ELSE
        LET n == NodeAt(t.v, sig)
            i == Last(sig)
            parentp == Parent(sig)
            parent == NodeAt(t.v, parentp)
            p == IF i > 1 THEN parentp \o <<i - 1>> ELSE NoPath
        IN  IF ~IsNone(n.tail)
            THEN IF p # NoPath
                 THEN IF IsNone(NodeAt(t.v, p).tail) THEN Raise("TypeError")
                      ELSE Ok(Tree(RemoveAt(
                              PutAt(t.v, p, [NodeAt(t.v, p) EXCEPT !.tail = @ \o n.tail]), sig)))
                 ELSE IF IsNone(parent.text) THEN Raise("TypeError")
                      ELSE Ok(Tree(RemoveAt(
                              PutAt(t.v, parentp, [parent EXCEPT !.text = @ \o n.tail]), sig)))
            ELSE Ok(Tree(RemoveAt(t.v, sig)))

\* the InclusiveNamespaces PrefixList read from tr only selects namespace
\* declarations, which the serializer of the model does not render
_transform(uri, t) ==
    IF uri = TRANSFORM_ENVELOPED_SIGNATURE THEN _enveloped_signature(t)
    ELSE IF uri \in {TRANSFORM_C14N_EXCLUSIVE_WITH_COMMENTS, TRANSFORM_C14N_EXCLUSIVE,
                     TRANSFORM_C14N_INCLUSIVE}
    THEN _c14n(t, uri # TRANSFORM_C14N_INCLUSIVE, uri = TRANSFORM_C14N_EXCLUSIVE_WITH_COMMENTS)
    ELSE Raise("XMLSigException")

\* object = _transform(_alg(tr), object, tr), unless an earlier transform raised
ApplyTransform(t, tr, object) ==
    IF object.err # "" THEN object ELSE _transform(_alg(NodeAt(t, tr)), object.v)

\* for tr in ref.findall(".//Transform"): ...
ApplyTransforms(t, trs, object) ==
    LET Applied[k \in 0..Len(trs)] ==
            IF k = 0 THEN object ELSE ApplyTransform(t, trs[k], Applied[k - 1])
    IN  Applied[Len(trs)]

\* the ds:Signature elements of a subtree, itself included
SigsIn(n) == (IF n.tag = "ds:Signature" THEN 1 ELSE 0) + Len(FindAll(n, <<>>, "ds:Signature"))

\* the ds:Signature start tags in a byte string
SigTags(bytes) ==
    Cardinality({i \in 1..(Len(bytes) - 1) : bytes[i] = "<" /\ bytes[i + 1] = "ds:Signature"})

\* What a call leaves behind: the exception ("" for none), the tree, the
\* references digested, the padded block and the bit length of the modulus
Result(err, t, log, block, bits) ==
    [err |-> err, t |-> t, log |-> log, block |-> block, bits |-> bits]

Failed(r, kind) == Result(kind, r.t, r.log, <<>>, 0)

\* the end of one round of the loop of _process_references: dm, hash_alg,
\* digest, dv.  For the record: the Reference, the number of its
\* enveloped-signature transforms, the ds:Signature elements of the subtree it
\* points to, and the bytes digested.
DigestReference(r, ref, at, trs, object) ==
    LET t == r.t
        dm == Find(t, ref, "ds:DigestMethod")
        alg == _alg(NodeAt(t, dm))
        hash_alg == Join(Split(alg, "#")[2])
        digest == _digest(object.v, hash_alg)
        dv == Find(t, ref, "ds:DigestValue")
    IN  IF object.err # "" THEN Failed(r, object.err)
        ELSE IF dm = NoPath THEN Failed(r, "XMLSigException")           \* no DigestMethod
        ELSE IF alg = None THEN Failed(r, "AttributeError")             \* None.split
        ELSE IF Len(Split(alg, "#")) < 2 THEN Failed(r, "IndexError")
        ELSE IF digest.err # "" THEN Failed(r, digest.err)
        ELSE IF dv = NoPath THEN Failed(r, "TypeError")                 \* etree.tostring(None)
        ELSE Result("",
                    PutAt(t, dv, [NodeAt(t, dv) EXCEPT !.text = digest.v]),
                    r.log \o <<[ref |-> ref,
                                enveloped |-> Len(SelectSeq(trs, LAMBDA tr :
                                    _alg(NodeAt(t, tr)) = TRANSFORM_ENVELOPED_SIGNATURE)),
                                sigs |-> SigsIn(NodeAt(t, at)),
                                bytes |-> object.v.v]>>,
                    <<>>, 0)

\* one round of the loop of _process_references, on the tree of r
ProcessReference(r, ref) ==
    LET t == r.t
        uri == Get(NodeAt(t, ref), "URI")
        whole == uri = None \/ uri = <<"#">> \/ uri = <<>>
        at == IF whole THEN <<>> ELSE _get_by_id(t, Tail(uri))
        trs == FindAll(t, ref, "ds:Transform")
    IN  IF ~whole /\ Head(uri) # "#" THEN Failed(r, "XMLSigException")   \* unknown reference
        ELSE IF at = NoPath THEN Failed(r, "XMLSigException")           \* unable to dereference
        ELSE DigestReference(r, ref, at, trs,
                             ApplyTransforms(t, trs, Ok(Tree(NodeAt(t, at)))))

\* the next round of the loop, unless an earlier one raised
NextReference(r, ref) == IF r.err # "" THEN r ELSE ProcessReference(r, ref)

ProcessReferencesFrom(refs, r) ==
    LET Done[k \in 0..Len(refs)] ==
            IF k = 0 THEN r ELSE NextReference(Done[k - 1], refs[k])
    IN  Done[Len(refs)]

\* sign and verify always pass sig; r carries the tree and the record so far
_process_references(r, sig) ==
    ProcessReferencesFrom(FindAll(r.t, sig, "ds:Reference"), r)

-----------------------------------------------------------------------------
(* Key specs *)

\* A key spec is the path of a certificate file or a string (a fingerprint
\* or a PEM literal)
FileSpec(c) == [kind |-> "file", c |-> c, v |-> <<>>]
StrSpec(v) == [kind |-> "str", c |-> 0, v |-> v]

_find_matching_cert(t, sig, fp) ==
    LET cds == FindAll(t, sig, "ds:X509Certificate")
        fp1 == SelectSeq(fp, LAMBDA c : c # ":")            \* fp.lower().replace(":", "")
        cert_der(cd) == b64decode(NodeAt(t, cd).text)
        raises(cd) == cert_der(cd).err # ""                \* b64decode: a TypeError
        matches(cd) == ~raises(cd) /\ HexDigest(cert_der(cd).v) = fp1
        none == \A i \in 1..Len(cds) : ~raises(cds[i]) /\ ~matches(cds[i])
        first == CHOOSE i \in 1..Len(cds) :
                    /\ raises(cds[i]) \/ matches(cds[i])
                    /\ \A j \in 1..(i - 1) : ~raises(cds[j]) /\ ~matches(cds[j])
    IN  IF none THEN Ok(None)
        ELSE IF raises(cds[first]) THEN Raise(cert_der(cds[first]).err)
        ELSE Ok(NodeAt(t, cds[first]).text)

\* data, or the XMLSigException when there is none
CertData(cd) ==
    IF cd.err # "" THEN cd
    ELSE IF cd.v = None THEN Raise("XMLSigException")
    ELSE Ok(PEM(cd.v))

_cert(t, sig, keyspec) ==
    IF keyspec.kind = "file" THEN Ok(CertFile(keyspec.c))
    ELSE IF \E i \in 1..Len(keyspec.v) : keyspec.v[i] = ":"
    THEN CertData(_find_matching_cert(t, sig, keyspec.v))
    ELSE Ok(keyspec.v)

-----------------------------------------------------------------------------
(* verify and sign *)

\* b_digest = b64d(digest) and the padded block
Padded(refs, b_digest, sz) ==
    IF b_digest.err # "" THEN Failed(refs, b_digest.err)
    ELSE Result("", refs.t, refs.log, _signed_value(b_digest.v, sz), sz - 1)

\* sic, digest, b_digest and the padded block: the same lines in verify and in sign
PaddedBlock(refs, si, sic, sz) ==
    IF sic.err # "" THEN Failed(refs, sic.err)
    ELSE IF sic.v.kind = "tree"                          \* si itself was transformed
    THEN Result("TypeError", PutAt(refs.t, si, sic.v.v), refs.log, <<>>, 0)
    ELSE Padded(refs, b64d(_digest(sic.v, "sha1").v), sz)

\* si, cm, cm_alg and what follows, once _process_references has left refs
SignedInfoBlock(refs, sig, sz) ==
    LET t == refs.t
        si == Find(t, sig, "ds:SignedInfo")
        cm == Find(t, si, "ds:CanonicalizationMethod")
        cm_alg == _alg(NodeAt(t, cm))
    IN  IF refs.err # "" THEN refs
        ELSE IF si = NoPath THEN Failed(refs, "AttributeError")         \* None.find
        ELSE IF cm = NoPath THEN Failed(refs, "AttributeError")         \* _alg(None)
        ELSE IF cm_alg = None THEN Failed(refs, "AssertionError")       \* No CanonicalizationMethod
        ELSE PaddedBlock(refs, si, _transform(cm_alg, Tree(NodeAt(t, si))), sz)

\* assert expected == actual
Compare(expected, actual) ==
    IF actual.err # "" THEN actual
    ELSE IF expected # actual.block THEN [actual EXCEPT !.err = "AssertionError"]
    ELSE actual

\* expected = key_f_public(b64d(sv)) and what follows
VerifyExpected(r, sig, key, b_sv) ==
    IF b_sv.err # "" THEN Failed(r, b_sv.err)
    ELSE Compare(f_public(key, b_sv.v),
                 SignedInfoBlock(_process_references(r, sig), sig, KeySize(key) + 1))

\* one round of the loop of verify, from data on
VerifyWithCert(r, sig, sv, data) ==
    LET key == ParseCert(data.v)
    IN  IF data.err # "" THEN Failed(r, data.err)
        ELSE IF key = 0 THEN Failed(r, "ParseError")
        ELSE VerifyExpected(r, sig, key, b64d(sv))

\* one round of the loop of verify
VerifySignature(r, sig, keyspec) ==
    LET sv == Find(r.t, sig, "ds:SignatureValue")
    IN  IF sv = NoPath THEN Failed(r, "AssertionError")                 \* No SignatureValue
        ELSE VerifyWithCert(r, sig, TextOf(NodeAt(r.t, sv).text), _cert(r.t, sig, keyspec))

\* the next round of the loop, unless an earlier one raised
NextVerify(r, sig, keyspec) == IF r.err # "" THEN r ELSE VerifySignature(r, sig, keyspec)

VerifyFrom(sigs, keyspec, r) ==
    LET Done[k \in 0..Len(sigs)] ==
            IF k = 0 THEN r ELSE NextVerify(Done[k - 1], sigs[k], keyspec)
    IN  Done[Len(sigs)]

\* a verify that resolves the key spec once, before it looks for ds:Signature elements
VerifyKeyFirst(t, keyspec) ==
    IF _cert(t, <<>>, keyspec).err # ""
    THEN Failed(Result("", t, <<>>, <<>>, 0), _cert(t, <<>>, keyspec).err)
    ELSE VerifyFrom(FindAll(t, <<>>, "ds:Signature"), keyspec, Result("", t, <<>>, <<>>, 0))

verify(t, keyspec) ==
    VerifyFrom(FindAll(t, <<>>, "ds:Signature"), keyspec, Result("", t, <<>>, <<>>, 0))

\* element.addnext(new): new becomes the next sibling; the call returns None
addnext(t, p, new) ==
    [t |-> InsertAt(t, Parent(p), Last(p), new), ret |-> NoPath]

KeyInfo(text) ==
    DS("KeyInfo", NoAttrs, None,
       <<DS("X509Data", NoAttrs, None, <<DS("X509Certificate", NoAttrs, text, <<>>)>>)>>)

\* sv, svv and the KeyInfo: the last three lines of the loop of sign
InsertSignatureValue(sig, key_spec, cert_file, tbs) ==
    LET sv == b64e(f_private(key_spec, tbs.block))
        si == Find(tbs.t, sig, "ds:SignedInfo")
        svv == addnext(tbs.t, si, DS("SignatureValue", NoAttrs, sv, <<>>))
    IN  IF tbs.err # "" THEN tbs
        ELSE IF svv.ret = NoPath                                         \* None.addnext
        THEN [tbs EXCEPT !.err = "AttributeError", !.t = svv.t]
        ELSE [tbs EXCEPT !.t = addnext(svv.t, svv.ret, KeyInfo(CertFile(cert_file))).t]

\* one round of the loop of sign
SignSignature(r, sig, key_spec, cert_file) ==
    InsertSignatureValue(sig, key_spec, cert_file,
        SignedInfoBlock(_process_references(r, sig), sig, KeySize(cert_file) + 1))

\* the next round of the loop, unless an earlier one raised
NextSign(r, sig, key_spec, cert_file) ==
    IF r.err # "" THEN r ELSE SignSignature(r, sig, key_spec, cert_file)

SignFrom(sigs, key_spec, cert_file, r) ==
    LET Done[k \in 0..Len(sigs)] ==
            IF k = 0 THEN r ELSE NextSign(Done[k - 1], sigs[k], key_spec, cert_file)
    IN  Done[Len(sigs)]

\* key_spec and cert_file name the files of a key pair
sign(t, key_spec, cert_file) ==
    SignFrom(FindAll(t, <<>>, "ds:Signature"), key_spec, cert_file,
             Result("", t, <<>>, <<>>, 0))

-----------------------------------------------------------------------------
(* Templates *)

Alg(uri) == "Algorithm" :> uri

_signed_info_transforms(transforms) ==
    DS("Transforms", NoAttrs, None,
       [i \in 1..Len(transforms) |-> DS("Transform", Alg(transforms[i]), None, <<>>)])

\* the template, with the Reference URI of the caller's choice (the code writes URI="")
SignatureTemplate(c14n_method, digest_alg, transforms, uri) ==
    DS("Signature", NoAttrs, None,
       <<DS("SignedInfo", NoAttrs, None,
            <<DS("CanonicalizationMethod", Alg(c14n_method), None, <<>>),
              DS("SignatureMethod", Alg(ALGORITHM_SIGNATURE_RSA_SHA1), None, <<>>),
              DS("Reference", "URI" :> uri, None,
                 <<_signed_info_transforms(transforms),
                   DS("DigestMethod", Alg(digest_alg), None, <<>>),
                   DS("DigestValue", NoAttrs, None, <<>>)>>)>>)>>)

_enveloped_signature_template(c14n_method, digest_alg, transforms) ==
    SignatureTemplate(c14n_method, digest_alg, transforms, <<>>)

add_enveloped_signature(t, c14n_method, digest_alg, transforms) ==
    InsertAt(t, <<>>, 0, _enveloped_signature_template(c14n_method, digest_alg, transforms))

-----------------------------------------------------------------------------
(* The caller's trees *)

Comment(text) == [tag |-> "#comment", attrs |-> NoAttrs, text |-> text, kids |-> <<>>, tail |-> None]

C14nMethods ==
    {TRANSFORM_C14N_INCLUSIVE, TRANSFORM_C14N_EXCLUSIVE, TRANSFORM_C14N_EXCLUSIVE_WITH_COMMENTS}

\* the canonicalization methods callers of add_enveloped_signature pass (the
\* hand-written templates use the third)
TemplateMethods == {TRANSFORM_C14N_INCLUSIVE, TRANSFORM_C14N_EXCLUSIVE_WITH_COMMENTS}

\* the default of add_enveloped_signature
DefaultTransforms == <<TRANSFORM_ENVELOPED_SIGNATURE, TRANSFORM_C14N_EXCLUSIVE_WITH_COMMENTS>>

\* transform lists callers pass: the default, one without the
\* enveloped-signature transform, one with an unknown transform
TransformLists ==
    {DefaultTransforms,
     <<TRANSFORM_C14N_INCLUSIVE>>,
     <<TRANSFORM_ENVELOPED_SIGNATURE, <<"urn:example:xslt">>>>}

\* <Assertion ID="a1"><Subject><b/></Subject><!--c--></Assertion>
Assertion ==
    Element("Assertion", "ID" :> <<"a1">>, None,
            <<Element("Subject", NoAttrs, None, <<Element("b", NoAttrs, None, <<>>)>>),
              Comment(<<"c">>)>>)

\* the assertion after two calls of add_enveloped_signature with the defaults
CoSigned ==
    add_enveloped_signature(
        add_enveloped_signature(Assertion, TRANSFORM_C14N_INCLUSIVE, ALGORITHM_DIGEST_SHA1,
                                DefaultTransforms),
        TRANSFORM_C14N_INCLUSIVE, ALGORITHM_DIGEST_SHA1, DefaultTransforms)

\* two hand-written templates, each over its own ID-addressed subtree; the
\* first carries the base64 DER of certificate 1 in a KeyInfo
TwoSigned ==
    Element("Root", NoAttrs, None,
            <<Element("A", "ID" :> <<"a">>, None,
                      <<[SignatureTemplate(TRANSFORM_C14N_EXCLUSIVE, ALGORITHM_DIGEST_SHA1,
                                           DefaultTransforms, <<"#", "a">>)
                            EXCEPT !.kids = @ \o <<KeyInfo(b64e(DER(1)))>>],
                        Element("x", NoAttrs, None, <<>>)>>),
              Element("B", "id" :> <<"b">>, None,
                      <<SignatureTemplate(TRANSFORM_C14N_EXCLUSIVE, ALGORITHM_DIGEST_SHA1,
                                          DefaultTransforms, <<"#", "b">>)>>)>>)

\* a parsed document: the template follows <h/> and is followed by a line break
Parsed ==
    Element("Doc", NoAttrs, None,
            <<Element("h", NoAttrs, None, <<>>),
              [SignatureTemplate(TRANSFORM_C14N_INCLUSIVE, ALGORITHM_DIGEST_SHA1,
                                 DefaultTransforms, <<>>) EXCEPT !.tail = <<"\n">>]>>)

Trees == {Assertion, CoSigned, TwoSigned, Parsed}

\* texts the caller writes into elements
Markup == <<"<", "b", ">", "<", "/", "b", ">">>
Texts == {<<" ">>, Markup}

IdLists == {<<"Id">>, <<"id", "ID">>}

KeySpecs ==
    {FileSpec(c) : c \in Certs} \cup {StrSpec(Fingerprint(1)), StrSpec(CertFile(1))}

\* the ds:Signature elements of the tree, in document order
Signatures(t) == LET ps == FindAll(t, <<>>, "ds:Signature") IN [i \in 1..Len(ps) |-> NodeAt(t, ps[i])]

\* the element a Reference points to
Target(t, ref) ==
    LET uri == Get(NodeAt(t, ref), "URI")
    IN  IF uri \in {None, <<>>, <<"#">>} THEN <<>>
        ELSE IF Head(uri) = "#" THEN _get_by_id(t, Tail(uri))
        ELSE NoPath

\* the elements the References of the tree point to
Targets(t) ==
    LET refs == FindAll(t, <<>>, "ds:Reference")
    IN  {Target(t, refs[i]) : i \in 1..Len(refs)}

\* the Algorithm of each element with this tag under base
Algs(t, base, tag) ==
    LET ps == FindAll(t, base, tag) IN [i \in 1..Len(ps) |-> _alg(NodeAt(t, ps[i]))]

\* a template sign is meant for: one SignedInfo with a supported
\* canonicalization, no SignatureValue yet
SignableSignature(t, sig) ==
    /\ Len(FindAll(t, sig, "ds:SignedInfo")) = 1
    /\ Len(FindAll(t, sig, "ds:SignatureValue")) = 0
    /\ Len(FindAll(t, sig, "ds:Reference")) >= 1
    /\ \E m \in C14nMethods : Algs(t, sig, "ds:CanonicalizationMethod") = <<m>>

\* a Reference sign is meant for: an enveloped signature with a supported
\* canonicalization over an element of the tree, digested with SHA-1
SignableReference(t, ref) ==
    /\ Target(t, ref) # NoPath
    /\ \E m \in C14nMethods : Algs(t, ref, "ds:Transform") = <<TRANSFORM_ENVELOPED_SIGNATURE, m>>
    /\ Algs(t, ref, "ds:DigestMethod") = <<ALGORITHM_DIGEST_SHA1>>
    /\ Len(FindAll(t, ref, "ds:DigestValue")) = 1

\* a tree sign is meant for: it carries templates, all of them signable
Signable(t) ==
    LET sigs == FindAll(t, <<>>, "ds:Signature")
        refs == FindAll(t, <<>>, "ds:Reference")
    IN  /\ sigs # <<>>
        /\ \A i \in 1..Len(sigs) : SignableSignature(t, sigs[i])
        /\ \A i \in 1..Len(refs) : SignableReference(t, refs[i])

\* two ds:Signature elements, each over its own ID-addressed subtree
TwoSubtrees(t) ==
    LET refs == FindAll(t, <<>>, "ds:Reference")
    IN  /\ Len(FindAll(t, <<>>, "ds:Signature")) = 2
        /\ Len(refs) = 2
        /\ <<>> \notin Targets(t)
        /\ Cardinality(Targets(t)) = 2

NotSigned == [t |-> None, cert |-> 0, signable |-> FALSE]

\* the tree is as sign left it
Clean(t) == signed.cert # 0 /\ t = signed.t

\* after sign, the signed content changed and the ds:Signature elements did not
Tampered(t) ==
    /\ signed.cert # 0
    /\ t # signed.t
    /\ Signatures(t) = Signatures(signed.t)
    /\ NoPath \notin Targets(t)
    /\ Targets(t) = Targets(signed.t)
    /\ \E p \in Targets(t) : Outside(NodeAt(t, p)) # Outside(NodeAt(signed.t, p))

-----------------------------------------------------------------------------
(* The calls *)

\* the record of a call of sign or verify on the tree t with outcome r
Call(op, arg, r, t) ==
    [op |-> op, arg |-> arg, err |-> r.err, changed |-> r.t # t,
     log |-> r.log, block |-> r.block, bits |-> r.bits,
     clean |-> op = "verify" /\ Clean(t), tampered |-> op = "verify" /\ Tampered(t)]

NoCall(op, arg) ==
    [op |-> op, arg |-> arg, err |-> "", changed |-> FALSE,
     log |-> <<>>, block |-> <<>>, bits |-> 0, clean |-> FALSE, tampered |-> FALSE]

Init ==
    /\ doc \in Trees
    /\ _id_attributes = <<"ID", "id">>
    /\ last = NoCall("init", <<>>)
    /\ signed = NotSigned
    /\ signs = 0
    /\ edits = 0

\* A run is a sequence of calls and edits that ends with verify.

AddEnvelopedSignature ==
    /\ last.op # "verify"
    /\ SigsIn(doc) < MaxSigs
    /\ signs = 0 /\ edits = 0
    /\ \E c14n_method \in TemplateMethods, transforms \in TransformLists :
          /\ doc' = add_enveloped_signature(doc, c14n_method, ALGORITHM_DIGEST_SHA1, transforms)
          /\ last' = NoCall("add_enveloped_signature", <<c14n_method, transforms>>)
    /\ UNCHANGED <<_id_attributes, signed, signs, edits>>

\* def setID(ids): _id_attributes = ids   (binds a local name)
setID ==
    /\ last.op = "init"
    /\ \E ids \in IdLists : last' = NoCall("setID", ids)
    /\ UNCHANGED <<doc, _id_attributes, signed, signs, edits>>

Sign ==
    /\ last.op # "verify"
    /\ signs < MaxSigns
    /\ \E c \in Certs : \E r \in {sign(doc, c, c)} :
          /\ doc' = r.t
          /\ last' = Call("sign", <<c>>, r, doc)
          /\ signed' = [t |-> r.t, cert |-> c, signable |-> Signable(doc)]
    /\ signs' = signs + 1
    /\ UNCHANGED <<_id_attributes, edits>>

Verify ==
    /\ last.op # "verify"
    /\ \E keyspec \in KeySpecs : \E r \in {verify(doc, keyspec)} :
          /\ doc' = r.t
          /\ last' = Call("verify", keyspec, r, doc)
    /\ UNCHANGED <<_id_attributes, signed, signs, edits>>

\* the caller writes the text of an element outside the ds:Signature elements
SetText ==
    /\ last.op # "verify"
    /\ edits < MaxEdits
    /\ \E s \in Texts : \E ps \in {<<<<>>>> \o Paths(doc)} : \E i \in 1..Len(ps) :
          /\ \A k \in 0..Len(ps[i]) :
                NodeAt(doc, SubSeq(ps[i], 1, k)).tag \notin {"ds:Signature", "#comment"}
          /\ NodeAt(doc, ps[i]).text # s
          /\ doc' = PutAt(doc, ps[i], [NodeAt(doc, ps[i]) EXCEPT !.text = s])
          /\ last' = NoCall("set text", <<ps[i], s>>)
    /\ edits' = edits + 1
    /\ UNCHANGED <<_id_attributes, signed, signs>>

\* the elements the caller removes
Removable ==
    {"b", "x", "ds:Signature", "ds:CanonicalizationMethod", "ds:SignatureValue", "ds:DigestMethod"}

Remove ==
    /\ last.op # "verify"
    /\ edits < MaxEdits
    /\ \E ps \in {Paths(doc)} : \E i \in 1..Len(ps) :
          /\ NodeAt(doc, ps[i]).tag \in Removable
          /\ doc' = RemoveAt(doc, ps[i])
          /\ last' = NoCall("remove", ps[i])
    /\ edits' = edits + 1
    /\ UNCHANGED <<_id_attributes, signed, signs>>

Next == AddEnvelopedSignature \/ setID \/ Sign \/ Verify \/ SetText \/ Remove

Spec == Init /\ [][Next]_vars

\* sign and verify without edits of the tree, with one more call of sign
SigningNext == AddEnvelopedSignature \/ setID \/ Sign \/ Verify

SigningSpec == Init /\ [][SigningNext]_vars

-----------------------------------------------------------------------------
(* The padder and the enveloped-signature transform, called on their own *)

MinKeyBits == 256     \* the shortest modulus of a key, in bits
MaxKeyBits == 320     \* the longest modulus of a key, in bits

\* b_digest = b64d(digest): the SHA-1 digests of canonical byte strings
Digests == {b64d(_digest(Bytes(<<"<", tag, ">">>), "sha1").v).v : tag \in {"a", "b"}}

\* sz = int(key.size()) + 1
KeySizes == {bits + 1 : bits \in MinKeyBits..MaxKeyBits}

\* subtrees the transform is handed: a ds:Signature with or without a tail,
\* after a sibling or first in its parent, in the root or one level down,
\* alone or followed by another ds:Signature
Bare(tail) == [DS("Signature", NoAttrs, None, <<>>) EXCEPT !.tail = tail]
Holder(text, before, sig, after) ==
    Element("Doc", NoAttrs, text, before \o <<sig>> \o after)
Holders ==
    {Holder(text, before, Bare(tail), after) :
        text \in {None, <<"t">>},
        before \in {<<>>, <<Element("h", NoAttrs, None, <<>>)>>,
                    <<[Element("h", NoAttrs, None, <<>>) EXCEPT !.tail = <<"u">>]>>},
        tail \in {None, <<"\n">>},
        after \in {<<>>, <<Bare(None)>>}}
Subtrees ==
    Holders \cup {Element("Root", NoAttrs, None, <<h>>) : h \in Holders} \cup {Parsed, CoSigned}

HelperInit ==
    /\ doc \in Subtrees
    /\ _id_attributes = <<"ID", "id">>
    /\ last = NoCall("init", <<>>)
    /\ signed = NotSigned
    /\ signs = 0
    /\ edits = 0

\* actual = _signed_value(b_digest, sz)
SignedValue ==
    /\ last.op = "init"
    /\ \E data \in Digests, key_size \in KeySizes :
          last' = [NoCall("_signed_value", [data |-> data, key_size |-> key_size])
                      EXCEPT !.block = _signed_value(data, key_size), !.bits = key_size - 1]
    /\ UNCHANGED <<doc, _id_attributes, signed, signs, edits>>

\* _enveloped_signature(t) works on t itself: doc is t after the call, as it
\* was when the call raised
EnvelopedSignature ==
    /\ last.op = "init"
    /\ \E r \in {_enveloped_signature(Tree(doc))} :
          /\ doc' = IF r.err = "" THEN r.v.v ELSE doc
          /\ last' = [NoCall("_enveloped_signature", doc) EXCEPT !.err = r.err]
    /\ UNCHANGED <<_id_attributes, signed, signs, edits>>

HelperNext == SignedValue \/ EnvelopedSignature

HelperSpec == HelperInit /\ [][HelperNext]_vars

-----------------------------------------------------------------------------
(* The claims *)

\* the ds:Signature elements of the tree, as paths
SignaturePaths(t) == LET ps == FindAll(t, <<>>, "ds:Signature") IN {ps[i] : i \in 1..Len(ps)}

\* the children of the element at p from the child with this tag on
From(t, p, tag) ==
    LET kids == NodeAt(t, p).kids
        at == {i \in 1..Len(kids) : kids[i].tag = tag}
    IN  IF at = {} THEN <<>> ELSE SubSeq(kids, CHOOSE i \in at : \A j \in at : i <= j, Len(kids))

\* C1: round trip.  sign ends without an exception on every signable tree, and
\* verify of the tree as sign left it, with the certificate file of the signing
\* key as key spec, returns true.
C1_RoundTrip ==
    /\ last.op = "sign" /\ signed.signable => last.err = ""
    /\ last.op = "verify" /\ last.clean /\ signed.signable /\ last.arg = FileSpec(signed.cert)
          => last.err = ""

\* C2: tamper evidence.  Once the signed content outside the ds:Signature
\* elements has been modified after sign, verify does not return true.
C2_TamperEvidence == last.op = "verify" /\ last.tampered => last.err # ""

\* C3: verify leaves the caller's tree as it was, whether it returns or raises.
C3_VerifyKeepsTree == last.op = "verify" => ~last.changed

\* C4: after setID(L) the ID-attribute search list is L.
C4_SetIDReplaces == last.op = "setID" => _id_attributes = last.arg

\* C5: sign and verify end normally or with an XMLSigException, never with
\* another kind of exception.
C5_SingleErrorKind == last.op \in {"sign", "verify"} => last.err \in {"", "XMLSigException"}

\* C6: after sign on a signable tree every ds:Signature holds, right after its
\* SignedInfo, a SignatureValue and then a KeyInfo/X509Data/X509Certificate
\* with the certificate, and every DigestValue has a text.
C6_SignatureInserted ==
    last.op = "sign" /\ signed.signable =>
        /\ \A sig \in SignaturePaths(doc) :
              LET k == From(doc, sig, "ds:SignedInfo")
              IN  /\ Len(k) >= 3
                  /\ k[2].tag = "ds:SignatureValue" /\ ~IsNone(k[2].text)
                  /\ \E text \in {CertFile(signed.cert), b64e(DER(signed.cert))} :
                        k[3] = KeyInfo(text)
        /\ \A i \in 1..Len(FindAll(doc, <<>>, "ds:DigestValue")) :
              ~IsNone(NodeAt(doc, FindAll(doc, <<>>, "ds:DigestValue")[i]).text)

\* C7: verify of a tree as sign left it, with the colon-separated fingerprint
\* of the signing certificate as key spec, returns true.
C7_FingerprintLookup ==
    last.op = "verify" /\ last.clean /\ signed.signable
        /\ last.arg = StrSpec(Fingerprint(signed.cert)) => last.err = ""

\* C8: the padded block sign and verify build for a modulus of m bits has
\* ceil(m / 8) - 1 octets.
C8_PaddingLength == last.bits # 0 => Len(last.block) = (last.bits + 7) \div 8 - 1

\* C9 as stated: the bytes digested for a Reference with the
\* enveloped-signature transform hold no ds:Signature element.
C9_NoSignatureDigested ==
    \A i \in 1..Len(last.log) : last.log[i].enveloped >= 1 => SigTags(last.log[i].bytes) = 0

\* C9 as the code has it: the enveloped-signature transform removes the first
\* ds:Signature of the referenced subtree, so the bytes digested hold every
\* other ds:Signature of the subtree, and none exactly when the subtree holds one.
C9_FirstSignatureRemoved ==
    \A i \in 1..Len(last.log) :
        last.log[i].enveloped = 1 => SigTags(last.log[i].bytes) = last.log[i].sigs - 1

\* a Reference over a subtree with two ds:Signature elements was digested
C9_TwoSignaturesDigested ==
    \E i \in 1..Len(last.log) :
        /\ last.log[i].enveloped = 1
        /\ last.log[i].sigs = 2
        /\ SigTags(last.log[i].bytes) = 1

\* C10: a tree with two ds:Signature elements, each over its own ID-addressed
\* subtree, verifies as sign left it.
C10_BothVerify ==
    last.op = "verify" /\ last.clean /\ signed.signable /\ TwoSubtrees(signed.t)
        /\ last.arg = FileSpec(signed.cert) => last.err = ""

\* C11: the padder returns 01, pad_size octets FF, 00, PREFIX and the digest,
\* with pad_size = L - len(PREFIX + digest) - 2, and the block has exactly L
\* octets, L = key_size / 8 - 1, for every key size the engine passes.
C11_PaddedToLength ==
    last.op = "_signed_value" =>
        LET d == last.arg.data
            L == (last.arg.key_size \div 8) - 1
            pad_size == L - Len(PREFIX \o d) - 2
        IN  /\ last.block = <<"01">> \o [i \in 1..pad_size |-> "FF"] \o <<"00">> \o PREFIX \o d
            /\ Len(last.block) = L

\* C12: the enveloped-signature transform returns the tree without its first
\* ds:Signature descendant, and the tail of the removed element is appended to
\* the tail of the preceding sibling, or to the text of the parent when there
\* is no preceding sibling, an absent tail or text counting as empty.
C12_TailKept ==
    last.op = "_enveloped_signature" /\ Find(last.arg, <<>>, "ds:Signature") # NoPath =>
        LET t == last.arg
            sig == Find(t, <<>>, "ds:Signature")
            tail == NodeAt(t, sig).tail
            prev == Parent(sig) \o <<Last(sig) - 1>>
            parent == NodeAt(t, Parent(sig))
            kept == IF IsNone(tail) THEN t
                    ELSE IF Last(sig) > 1
                    THEN PutAt(t, prev, [NodeAt(t, prev) EXCEPT !.tail = TextOf(@) \o tail])
                    ELSE PutAt(t, Parent(sig), [parent EXCEPT !.text = TextOf(@) \o tail])
        IN  /\ last.err = ""
            /\ doc = RemoveAt(kept, sig)

\* C13: verify returns true exactly when every ds:Signature element of the
\* tree passed its check.  On a tree without a ds:Signature element it returns
\* true whatever the key spec is, digests no Reference, builds no block and
\* leaves the tree as it was; when it returns true on a tree with ds:Signature
\* elements, each of them holds a SignatureValue, every Reference was digested
\* and the last block compared is the SignatureValue of the last element under
\* the public key.
C13_EverySignatureChecked ==
    last.op = "verify" =>
        /\ SigsIn(doc) = 0 =>
              last.err = "" /\ last.log = <<>> /\ last.block = <<>> /\ ~last.changed
        /\ last.err = "" /\ SigsIn(doc) > 0 =>
              LET sigs == FindAll(doc, <<>>, "ds:Signature")
                  sv == Find(doc, sigs[Len(sigs)], "ds:SignatureValue")
              IN  /\ \A i \in 1..Len(sigs) : Find(doc, sigs[i], "ds:SignatureValue") # NoPath
                  /\ Len(last.log) = Len(FindAll(doc, <<>>, "ds:Reference"))
                  /\ \E c \in Certs : last.block = f_public(c, b64d(TextOf(NodeAt(doc, sv).text)).v)
                  /\ last.block # <<"junk">>

\* verify returned true on a tree without a ds:Signature element, for a
\* fingerprint that no certificate of the tree matches
C13_NothingToVerify ==
    /\ last.op = "verify"
    /\ SigsIn(doc) = 0
    /\ last.arg = StrSpec(Fingerprint(1))
    /\ last.err = ""

====
